---- MODULE Spec2Model ----
(***************************************************************************)
(* Order execution engine of PLEBLAUNCH:                                   *)
(*   backend/src/services/tradingEngine/OrderExecutionService.ts          *)
(*   TradingController (createOrder, cancelOrder) and types/trading.ts    *)
(*                                                                         *)
(* The durable store (tables orders, trades), the swap venue and the      *)
(* portfolio are the shared state.  Every call in flight is a task; each  *)
(* `await` of the code is one step of its task, so that calls interleave  *)
(* exactly where the JavaScript event loop lets them.                     *)
(*                                                                         *)
(* Numbers: prices and amounts are positive integers, a quote's implied   *)
(* price is the exact rational outAmount/inAmount, and a slippage         *)
(* tolerance is a whole number of percent (slippageTolerance * 100).      *)
(* An optional value (limitPrice?: number) is <<>> when undefined and     *)
(* <<x>> when defined.                                                    *)
(***************************************************************************)
EXTENDS Integers, Sequences, FiniteSets, TLC

\* ---------------------------------------------------------------- bounds
MaxOrders == 1      \* orders ever created
MaxTasks == 2       \* calls in flight at once (scheduler passes, createOrder requests)
MaxFaults == 2      \* exceptions raised by the store and the collaborators in one run
MaxPrice == 3       \* current prices and trigger prices range over 1..MaxPrice
MaxUsers == 2       \* authenticated users

\* ------------------------------------------------- types/trading.ts enums
MARKET == "market"
LIMIT == "limit"
STOP_LOSS == "stop_loss"
TAKE_PROFIT == "take_profit"
TRAILING_STOP == "trailing_stop"
OrderType == {MARKET, LIMIT, STOP_LOSS, TAKE_PROFIT, TRAILING_STOP}

PENDING == "pending"
FILLED == "filled"
PARTIALLY_FILLED == "partially_filled"
CANCELLED == "cancelled"
REJECTED == "rejected"
FAILED == "failed"
EXPIRED == "expired"
OrderStatus == {PENDING, FILLED, PARTIALLY_FILLED, CANCELLED, REJECTED, FAILED, EXPIRED}

BUY == "buy"
SELL == "sell"
OrderSide == {BUY, SELL}

\* --------------------------------------------------- optional values (x?: T)
None == <<>>
Some(x) == <<x>>
IsSome(v) == v # <<>>
Val(v) == v[1]

Users == 1..MaxUsers
Prices == 1..MaxPrice
OrderIds == 1..(MaxOrders + 1)
Tasks == 1..MaxTasks

\* --------------------------------------------------------------- state
VARIABLES
  orders,     \* table orders: row i is the i-th order created (created_at ascending)
  trades,     \* table trades: row i is the i-th trade inserted
  swaps,      \* swaps the venue settled, per order id
  portfolio,  \* trade ids handed to PortfolioManager.updatePortfolioAfterTrade, in order
  tasks,      \* the calls in flight, each at one of its awaits
  cancelOk,   \* per order id, how many cancelOrder calls have returned true
  faults,     \* exceptions raised so far
  limits      \* never changes: how many orders the run creates and how many
              \* exceptions it raises, at most

vars == <<orders, trades, swaps, portfolio, tasks, cancelOk, faults, limits>>

IdleTask ==
  [kind |-> "idle", pc |-> "idle", batch |-> <<>>, order |-> 0,
   pstatus |-> PENDING, reason |-> None, quote |-> None, trade |-> 0,
   ret |-> "none", steps |-> <<>>]

InitWith(ts, maxOrders, maxFaults) ==
  /\ orders = <<>>
  /\ trades = <<>>
  /\ swaps = [o \in OrderIds |-> 0]
  /\ portfolio = <<>>
  /\ tasks = [t \in ts |-> IdleTask]
  /\ cancelOk = [o \in OrderIds |-> 0]
  /\ faults = 0
  /\ limits = [orders |-> maxOrders, faults |-> maxFaults]

Init == InitWith(Tasks, MaxOrders, MaxFaults)

\* another order can be created; another exception can be raised
CanCreate == Len(orders) < limits.orders
CanThrow == faults < limits.faults

\* ------------------------------------------------------------ the store
\* INSERT INTO orders (TradingController.saveOrder): market_price is no column
\* of the insert and createOrder never sets order.marketPrice.
NewOrder(userId, body) ==
  [userId |-> userId, type |-> body.type, side |-> body.side, status |-> PENDING,
   limitPrice |-> body.limitPrice, stopPrice |-> body.stopPrice,
   takeProfitPrice |-> body.takeProfitPrice, marketPrice |-> None,
   slippageTolerance |-> body.slippageTolerance, failureReason |-> None]

\* a status write that does not store the reason it is given
updateOrderStatus_DropsReason(os, orderId, status, reason) ==
  [i \in DOMAIN os |->
     IF i = orderId THEN [os[i] EXCEPT !.status = status, !.failureReason = None]
     ELSE os[i]]

\* a status write that puts a failed order back in the queue instead of
\* marking it FAILED
updateOrderStatus_Requeue(os, orderId, status, reason) ==
  [i \in DOMAIN os |->
     IF i = orderId
     THEN [os[i] EXCEPT !.status = IF status = FAILED THEN PENDING ELSE status,
                        !.failureReason = reason]
     ELSE os[i]]

\* UPDATE orders SET status = $1, failure_reason = $2, updated_at = NOW() WHERE id = $3
\* (no condition on the current status; an unknown id matches no row)
updateOrderStatus(os, orderId, status, reason) ==
  [i \in DOMAIN os |->
     IF i = orderId THEN [os[i] EXCEPT !.status = status, !.failureReason = reason]
     ELSE os[i]]

\* a cancellation that does not look at the owner of the order
CancelMatches_AnyOwner(os, orderId, userId) ==
  /\ orderId \in DOMAIN os
  /\ os[orderId].status = PENDING

\* UPDATE orders SET status = 'cancelled', updated_at = NOW()
\*   WHERE id = $2 AND user_id = $3 AND status = 'pending'
CancelMatches(os, orderId, userId) ==
  /\ orderId \in DOMAIN os
  /\ os[orderId].userId = userId
  /\ os[orderId].status = PENDING

\* a cancellation that also wipes the trigger price of the order
CancelUpdate_ClearsPrice(os, orderId, userId) ==
  [i \in DOMAIN os |->
     IF i = orderId /\ CancelMatches(os, orderId, userId)
     THEN [os[i] EXCEPT !.status = CANCELLED, !.limitPrice = None]
     ELSE os[i]]

CancelUpdate(os, orderId, userId) ==
  [i \in DOMAIN os |->
     IF i = orderId /\ CancelMatches(os, orderId, userId)
     THEN [os[i] EXCEPT !.status = CANCELLED]
     ELSE os[i]]

\* a fetch without its WHERE clause: every row from i on, whatever its status
PendingFrom_AllRows(os, i) ==
  [k \in 1..(Len(os) - i + 1) |-> i + k - 1]

\* SELECT * FROM orders WHERE status = 'pending' ORDER BY created_at ASC
\* (the ids of the rows, oldest first)
RECURSIVE PendingFrom(_, _)
PendingFrom(os, i) ==
  IF i > Len(os) THEN <<>>
  ELSE (IF os[i].status = PENDING THEN <<i>> ELSE <<>>) \o PendingFrom(os, i + 1)

getPendingOrders(os) == PendingFrom(os, 1)

\* ------------------------------------------------------ request layer
\* TradingController.createOrderValidators: the values the route validators admit
createOrderValidators(body) ==
  /\ body.type \in {"MARKET", "LIMIT", "STOP", "STOP_LIMIT"}
  /\ body.side \in {"BUY", "SELL"}
  /\ body.slippageTolerance >= 0 /\ body.slippageTolerance <= 100

\* TradingController.createOrder up to and including saveOrder; for every
\* type but 'market' the 201 response follows at once.  `user` is req.user?.id,
\* `mounted` tells whether the route runs createOrderValidators in front of the
\* handler.  The 400 and 401 answers change nothing.
createOrder(t, user, body, mounted) ==
  /\ CanCreate
  /\ IF (mounted /\ ~createOrderValidators(body)) \/ ~IsSome(user)
     THEN UNCHANGED <<orders, tasks>>
     ELSE /\ orders' = Append(orders, NewOrder(Val(user), body))
          /\ IF body.type = MARKET
             THEN /\ t \in DOMAIN tasks
                  /\ tasks[t].kind = "idle"
                  /\ tasks' = [tasks EXCEPT ![t] =
                       [IdleTask EXCEPT !.kind = "request", !.pc = "risk",
                                        !.order = Len(orders) + 1]]
             ELSE UNCHANGED tasks
  /\ UNCHANGED <<trades, swaps, portfolio, cancelOk, faults, limits>>

\* saveOrder throws: the handler's catch answers 500 and nothing is stored
createOrderStoreError(user, body) ==
  /\ CanCreate
  /\ CanThrow
  /\ IsSome(user)
  /\ faults' = faults + 1
  /\ UNCHANGED <<orders, trades, swaps, portfolio, tasks, cancelOk, limits>>

\* result.rowCount of the UPDATE of cancelOrder
CancelRowCount(os, orderId, userId) ==
  Cardinality({i \in DOMAIN os : CancelUpdate(os, orderId, userId)[i] # os[i]})

\* what OrderExecutionService.cancelOrder returns: result.rowCount > 0
cancelOrderResult(os, orderId, userId) == CancelRowCount(os, orderId, userId) > 0

\* OrderExecutionService.cancelOrder: one conditional UPDATE
cancelOrder(orderId, userId) ==
  /\ orders' = CancelUpdate(orders, orderId, userId)
  /\ cancelOk' = IF cancelOrderResult(orders, orderId, userId)
                 THEN [cancelOk EXCEPT ![orderId] = @ + 1]
                 ELSE cancelOk
  /\ UNCHANGED <<trades, swaps, portfolio, tasks, faults, limits>>

\* the UPDATE throws: the catch of cancelOrder logs and returns false
cancelOrderStoreError(orderId, userId) ==
  /\ CanThrow
  /\ faults' = faults + 1
  /\ UNCHANGED <<orders, trades, swaps, portfolio, tasks, cancelOk, limits>>

\* how cancelOrder ends when its query throws: catch (error) { ...; return false }
cancelOrderCatch == [threw |-> FALSE, value |-> FALSE]

\* how getUserOrders ends when its query throws: catch (error) { ...; return [] }
getUserOrdersCatch == [threw |-> FALSE, value |-> <<>>]

\* OrderExecutionService.getUserOrders when the SELECT throws: the catch logs
\* and returns []; the query itself writes nothing
getUserOrdersStoreError(userId) ==
  /\ CanThrow
  /\ faults' = faults + 1
  /\ UNCHANGED <<orders, trades, swaps, portfolio, tasks, cancelOk, limits>>

\* ------------------------------------------- OrderExecutionService helpers
Abs(x) == IF x < 0 THEN 0 - x ELSE x

\* order.limitPrice || order.marketPrice
expectedPrice(order) ==
  IF IsSome(order.limitPrice) THEN order.limitPrice ELSE order.marketPrice

\* a gate that also stops a quote whose slippage equals the tolerance
SlippageExceeds_Inclusive(P, quote, tolerance) ==
  Abs(quote.outAmount - P * quote.inAmount) * 100 >= tolerance * P * quote.inAmount

\* slippage > order.slippageTolerance, with
\*   slippage = |outAmount/inAmount - expectedPrice| / expectedPrice
\* multiplied out by inAmount * expectedPrice * 100 (all positive)
SlippageExceeds(P, quote, tolerance) ==
  Abs(quote.outAmount - P * quote.inAmount) * 100 > tolerance * P * quote.inAmount

\* checkSlippage(order, quote).isValid; with no expected price the slippage is
\* NaN, and NaN > tolerance is false
checkSlippage(order, quote) ==
  IF IsSome(expectedPrice(order))
  THEN ~SlippageExceeds(Val(expectedPrice(order)), quote, order.slippageTolerance)
  ELSE TRUE

\* a limit trigger that misses the boundary currentPrice = limitPrice
shouldExecuteLimitOrder_Strict(order, currentPrice) ==
  IF order.side = BUY
  THEN IsSome(order.limitPrice) /\ currentPrice < Val(order.limitPrice)
  ELSE IsSome(order.limitPrice) /\ currentPrice > Val(order.limitPrice)

\* a comparison with undefined is false
shouldExecuteLimitOrder(order, currentPrice) ==
  IF order.side = BUY
  THEN IsSome(order.limitPrice) /\ currentPrice <= Val(order.limitPrice)
  ELSE IsSome(order.limitPrice) /\ currentPrice >= Val(order.limitPrice)

\* a stop-loss trigger that does not look at the side
shouldExecuteStopLoss_AnySide(order, currentPrice) ==
  IsSome(order.stopPrice) /\ currentPrice <= Val(order.stopPrice)

shouldExecuteStopLoss(order, currentPrice) ==
  IF order.side = SELL
  THEN IsSome(order.stopPrice) /\ currentPrice <= Val(order.stopPrice)
  ELSE FALSE

\* a take-profit trigger that does not look at the side
shouldExecuteTakeProfit_AnySide(order, currentPrice) ==
  IsSome(order.takeProfitPrice) /\ currentPrice >= Val(order.takeProfitPrice)

\* executeTakeProfitOrder, line 270
shouldExecuteTakeProfit(order, currentPrice) ==
  /\ order.side = SELL
  /\ IsSome(order.takeProfitPrice)
  /\ currentPrice >= Val(order.takeProfitPrice)

\* the switch of processPendingOrders: the types that have a case
Dispatched(order) == order.type \in {LIMIT, STOP_LOSS, TAKE_PROFIT}

\* the executor of the order's type delegates to executeMarketOrder
ShouldExecute(order, currentPrice) ==
  IF order.type = LIMIT THEN shouldExecuteLimitOrder(order, currentPrice)
  ELSE IF order.type = STOP_LOSS THEN shouldExecuteStopLoss(order, currentPrice)
  ELSE shouldExecuteTakeProfit(order, currentPrice)

\* executeLimitOrder and executeStopLossOrder wrap their body in try/catch;
\* executeTakeProfitOrder does not
ExecutorCatches(order) == order.type \in {LIMIT, STOP_LOSS}

\* ------------------------------------------------------- scheduler pass
Set(t, rec) == tasks' = [tasks EXCEPT ![t] = rec]

\* task t is a call in flight, at the await pc
InAttempt(t, pc) ==
  t \in DOMAIN tasks /\ tasks[t].kind \in {"pass", "request"} /\ tasks[t].pc = pc

\* the for loop of processPendingOrders moves on to the next order of the batch
NextOrder(task) ==
  IF Len(task.batch) <= 1 THEN IdleTask
  ELSE [IdleTask EXCEPT !.kind = "pass", !.pc = "loop", !.batch = Tail(task.batch)]

\* processPendingOrders: await getPendingOrders()
processPendingOrders(t) ==
  /\ t \in DOMAIN tasks
  /\ tasks[t].kind = "idle"
  /\ getPendingOrders(orders) # <<>>
  /\ Set(t, [IdleTask EXCEPT !.kind = "pass", !.pc = "loop",
                             !.batch = getPendingOrders(orders)])
  /\ UNCHANGED <<orders, trades, swaps, portfolio, cancelOk, faults, limits>>

\* a pass without its outer catch: the exception of getPendingOrders reaches
\* the scheduler, whose timer callback dies with it
processPendingOrdersStoreError_Propagates(t) ==
  /\ CanThrow
  /\ t \in DOMAIN tasks
  /\ tasks[t].kind = "idle"
  /\ faults' = faults + 1
  /\ Set(t, [IdleTask EXCEPT !.kind = "crashed"])
  /\ UNCHANGED <<orders, trades, swaps, portfolio, cancelOk, limits>>

\* getPendingOrders throws: the catch of processPendingOrders logs, the pass ends
processPendingOrdersStoreError(t) ==
  /\ CanThrow
  /\ t \in DOMAIN tasks
  /\ tasks[t].kind = "idle"
  /\ faults' = faults + 1
  /\ UNCHANGED <<orders, trades, swaps, portfolio, tasks, cancelOk, limits>>

\* an executor without the test for a missing price: the null that
\* getTokenPrice returned is compared as the number 0
evaluateOrder_NoPriceTest(t, price) ==
  LET task == tasks[t]
      id == Head(task.batch)
      order == orders[id]
  IN
  /\ InAttempt(t, "loop")
  /\ IF ~Dispatched(order)
     THEN Set(t, NextOrder(task))
     ELSE IF ShouldExecute(order, IF IsSome(price) THEN Val(price) ELSE 0)
     THEN Set(t, [task EXCEPT !.pc = "risk", !.order = id])
     ELSE Set(t, NextOrder(task))
  /\ UNCHANGED <<orders, trades, swaps, portfolio, cancelOk, faults, limits>>

\* One turn of the loop up to the executor's first await: the switch on
\* order.type, then getTokenPrice and the trigger test.  `price` is what
\* getTokenPrice returned (None: no price).  The order evaluated is the row as
\* fetched; of its columns only status and failure_reason ever change, and
\* the executors read neither.
evaluateOrder(t, price) ==
  LET task == tasks[t]
      id == Head(task.batch)
      order == orders[id]
  IN
  /\ InAttempt(t, "loop")
  /\ IF ~Dispatched(order)
     THEN Set(t, NextOrder(task))
     ELSE IF IsSome(price) /\ ShouldExecute(order, Val(price))
     THEN Set(t, [task EXCEPT !.pc = "risk", !.order = id])
     ELSE Set(t, NextOrder(task))
  /\ UNCHANGED <<orders, trades, swaps, portfolio, cancelOk, faults, limits>>

\* getTokenPrice throws: executeLimitOrder and executeStopLossOrder catch it and
\* return null; executeTakeProfitOrder lets it through to the catch of
\* processPendingOrders, which ends the pass.
evaluateOrderPriceError(t) ==
  LET task == tasks[t]
      order == orders[Head(task.batch)]
  IN
  /\ InAttempt(t, "loop")
  /\ Dispatched(order)
  /\ CanThrow
  /\ faults' = faults + 1
  /\ Set(t, IF ExecutorCatches(order) THEN NextOrder(task) ELSE IdleTask)
  /\ UNCHANGED <<orders, trades, swaps, portfolio, cancelOk, limits>>
\* ---------------------------------------------------- executeMarketOrder
\* A task inside executeMarketOrder(order): order is tasks[t].order, and
\* tasks[t].steps lists what the attempt has done so far: "risk" (verdict
\* received), "quote" (quote requested and answered), "swap" (swap settled),
\* "swapFailed", "trade" (trade inserted), "portfolio" (portfolio updated),
\* "status" (status written), "catch" (FAILED written by the catch block);
\* "riskInvalid", "noQuote", "slippageExceeded" and "swapFailed" are the
\* answers that end the attempt.
Did(task, step) == [task EXCEPT !.steps = Append(task.steps, step)]

\* error.message of a caught exception
ErrorMessage == Some("exception")

\* an await inside the try block throws: control goes to the catch block
Throw(t) ==
  /\ CanThrow
  /\ faults' = faults + 1
  /\ Set(t, [tasks[t] EXCEPT !.pc = "catch", !.reason = ErrorMessage, !.quote = None])

\* the attempt is about to await updateOrderStatus(order.id, status, reason)
ToStatus(task, status, reason) ==
  [task EXCEPT !.pc = "status", !.pstatus = status, !.reason = reason]

\* a risk gate whose verdict is not looked at
riskCheck_IgnoresVerdict(t, valid, reason) ==
  /\ InAttempt(t, "risk")
  /\ Set(t, [Did(tasks[t], IF valid THEN "risk" ELSE "riskInvalid") EXCEPT !.pc = "quote"])
  /\ UNCHANGED <<orders, trades, swaps, portfolio, cancelOk, faults, limits>>

\* 1. riskManager.validateOrder(order); valid = riskCheck.isValid
riskCheck(t, valid, reason) ==
  /\ InAttempt(t, "risk")
  /\ Set(t, IF valid THEN [Did(tasks[t], "risk") EXCEPT !.pc = "quote"]
            ELSE ToStatus(Did(tasks[t], "riskInvalid"), REJECTED, reason))
  /\ UNCHANGED <<orders, trades, swaps, portfolio, cancelOk, faults, limits>>

riskCheckError(t) ==
  /\ InAttempt(t, "risk")
  /\ Throw(t)
  /\ UNCHANGED <<orders, trades, swaps, portfolio, cancelOk, limits>>

\* a quote step that leaves the order PENDING for a later pass when there is no
\* quote, instead of failing it
getQuote_NoQuoteRetries(t, quote) ==
  LET task == tasks[t]
      order == orders[task.order]
  IN
  /\ InAttempt(t, "quote")
  /\ Set(t, IF ~IsSome(quote)
            THEN ToStatus(Did(task, "noQuote"), PENDING, None)
            ELSE IF ~checkSlippage(order, Val(quote))
            THEN ToStatus([Did(Did(task, "quote"), "slippageExceeded") EXCEPT !.quote = quote],
                          REJECTED, Some("Slippage exceeds tolerance"))
            ELSE [Did(task, "quote") EXCEPT !.pc = "swap", !.quote = quote])
  /\ UNCHANGED <<orders, trades, swaps, portfolio, cancelOk, faults, limits>>

\* 2. jupiterService.getQuote, and 3. checkSlippage on the quote returned
getQuote(t, quote) ==
  LET task == tasks[t]
      order == orders[task.order]
  IN
  /\ InAttempt(t, "quote")
  /\ Set(t, IF ~IsSome(quote)
            THEN ToStatus(Did(task, "noQuote"), FAILED, Some("Unable to get quote"))
            ELSE IF ~checkSlippage(order, Val(quote))
            THEN ToStatus([Did(Did(task, "quote"), "slippageExceeded") EXCEPT !.quote = quote],
                          REJECTED, Some("Slippage exceeds tolerance"))
            ELSE [Did(task, "quote") EXCEPT !.pc = "swap", !.quote = quote])
  /\ UNCHANGED <<orders, trades, swaps, portfolio, cancelOk, faults, limits>>

getQuoteError(t) ==
  /\ InAttempt(t, "quote")
  /\ Throw(t)
  /\ UNCHANGED <<orders, trades, swaps, portfolio, cancelOk, limits>>

\* a swap step that does not look at swapResult.success
executeSwap_IgnoresFailure(t, success, error) ==
  /\ InAttempt(t, "swap")
  /\ swaps' = IF success THEN [swaps EXCEPT ![tasks[t].order] = @ + 1] ELSE swaps
  /\ Set(t, [Did(tasks[t], IF success THEN "swap" ELSE "swapFailed") EXCEPT !.pc = "trade"])
  /\ UNCHANGED <<orders, trades, portfolio, cancelOk, faults, limits>>

\* a swap step after which the portfolio is updated before any trade is recorded
executeSwap_SkipsTrade(t, success, error) ==
  /\ InAttempt(t, "swap")
  /\ swaps' = IF success THEN [swaps EXCEPT ![tasks[t].order] = @ + 1] ELSE swaps
  /\ Set(t, IF success THEN [Did(tasks[t], "swap") EXCEPT !.pc = "portfolio"]
            ELSE ToStatus(Did(tasks[t], "swapFailed"), FAILED, error))
  /\ UNCHANGED <<orders, trades, portfolio, cancelOk, faults, limits>>

\* 4. jupiterService.executeSwap; success = swapResult.success
executeSwap(t, success, error) ==
  /\ InAttempt(t, "swap")
  /\ swaps' = IF success THEN [swaps EXCEPT ![tasks[t].order] = @ + 1] ELSE swaps
  /\ Set(t, IF success THEN [Did(tasks[t], "swap") EXCEPT !.pc = "trade"]
            ELSE ToStatus(Did(tasks[t], "swapFailed"), FAILED, error))
  /\ UNCHANGED <<orders, trades, portfolio, cancelOk, faults, limits>>

executeSwapError(t) ==
  /\ InAttempt(t, "swap")
  /\ Throw(t)
  /\ UNCHANGED <<orders, trades, swaps, portfolio, cancelOk, limits>>

\* 5. createTrade: INSERT INTO trades; the trade id is generated fresh
createTrade(t) ==
  LET task == tasks[t]
      order == orders[task.order]
      quote == Val(task.quote)
  IN
  /\ InAttempt(t, "trade")
  /\ trades' = Append(trades,
       [id |-> Len(trades) + 1, orderId |-> task.order, userId |-> order.userId,
        side |-> order.side, inputAmount |-> quote.inAmount,
        outputAmount |-> quote.outAmount])
  /\ Set(t, [Did(task, "trade") EXCEPT !.pc = "portfolio", !.trade = Len(trades) + 1,
                                       !.quote = None])
  /\ UNCHANGED <<orders, swaps, portfolio, cancelOk, faults, limits>>

createTradeError(t) ==
  /\ InAttempt(t, "trade")
  /\ Throw(t)
  /\ UNCHANGED <<orders, trades, swaps, portfolio, cancelOk, limits>>

\* a portfolio step that hands the trade over a second time (a retry)
updatePortfolioAfterTrade_Twice(t) ==
  /\ InAttempt(t, "portfolio")
  /\ portfolio' = portfolio \o <<tasks[t].trade, tasks[t].trade>>
  /\ Set(t, ToStatus(Did(tasks[t], "portfolio"), FILLED, None))
  /\ UNCHANGED <<orders, trades, swaps, cancelOk, faults, limits>>

\* 6. portfolioManager.updatePortfolioAfterTrade(trade)
updatePortfolioAfterTrade(t) ==
  /\ InAttempt(t, "portfolio")
  /\ portfolio' = Append(portfolio, tasks[t].trade)
  /\ Set(t, ToStatus(Did(tasks[t], "portfolio"), FILLED, None))
  /\ UNCHANGED <<orders, trades, swaps, cancelOk, faults, limits>>

updatePortfolioAfterTradeError(t) ==
  /\ InAttempt(t, "portfolio")
  /\ Throw(t)
  /\ UNCHANGED <<orders, trades, swaps, portfolio, cancelOk, limits>>

\* the value executeMarketOrder returns after a status write
Returned(task, ret) ==
  [task EXCEPT !.pc = "returned", !.ret = ret, !.reason = None, !.quote = None]

\* await updateOrderStatus(...) of steps 1-4 and 7, then the return that follows:
\* the trade after FILLED, null otherwise
writeStatus(t) ==
  LET task == tasks[t] IN
  /\ InAttempt(t, "status")
  /\ orders' = updateOrderStatus(orders, task.order, task.pstatus, task.reason)
  /\ Set(t, Returned(Did(task, "status"),
                     IF task.pstatus = FILLED THEN "trade" ELSE "null"))
  /\ UNCHANGED <<trades, swaps, portfolio, cancelOk, faults, limits>>

writeStatusError(t) ==
  /\ InAttempt(t, "status")
  /\ Throw(t)
  /\ UNCHANGED <<orders, trades, swaps, portfolio, cancelOk, limits>>

\* catch (error): await updateOrderStatus(order.id, FAILED, error.message); return null
catchError(t) ==
  LET task == tasks[t] IN
  /\ InAttempt(t, "catch")
  /\ orders' = updateOrderStatus(orders, task.order, FAILED, task.reason)
  /\ Set(t, Returned(Did([task EXCEPT !.pstatus = FAILED], "catch"), "null"))
  /\ UNCHANGED <<trades, swaps, portfolio, cancelOk, faults, limits>>

\* the updateOrderStatus of the catch block throws: executeMarketOrder throws
catchErrorStoreError(t) ==
  /\ CanThrow
  /\ InAttempt(t, "catch")
  /\ faults' = faults + 1
  /\ Set(t, Returned(tasks[t], "throw"))
  /\ UNCHANGED <<orders, trades, swaps, portfolio, cancelOk, limits>>

\* What createOrder answers after executeMarketOrder: 201 with its own order
\* object, whose status is still the PENDING it was created with, and the
\* trade; 500 from its catch when executeMarketOrder threw.
createOrderResponse(task) ==
  IF task.ret = "throw" THEN [code |-> 500, status |-> None, trade |-> 0]
  ELSE [code |-> 201, status |-> Some(PENDING),
        trade |-> IF task.ret = "trade" THEN task.trade ELSE 0]

\* executeMarketOrder has returned (or thrown) to its caller.
\*  - a scheduler pass goes on with the next order, unless the exception came
\*    through executeTakeProfitOrder, which ends the pass;
\*  - createOrder answers (createOrderResponse) and is done.
afterExecute(t) ==
  LET task == tasks[t]
      order == orders[task.order]
  IN
  /\ InAttempt(t, "returned")
  /\ Set(t, IF task.kind = "pass" /\ ~(task.ret = "throw" /\ ~ExecutorCatches(order))
            THEN NextOrder(task)
            ELSE IdleTask)
  /\ UNCHANGED <<orders, trades, swaps, portfolio, cancelOk, faults, limits>>

\* ----------------------------------------------------- PortfolioManager
\* PortfolioManager.updatePortfolioAfterTrade as the specification describes
\* it (section 4.3): a trade already applied is detected by its id and not
\* reapplied; a BUY adds to size and invested capital, a SELL takes its size
\* and cost (at average cost, in whole units) out and realizes the difference
\* between proceeds and cost.
EmptyPosition == [applied |-> {}, size |-> 0, invested |-> 0, realized |-> 0]

applyTrade(pos, trade) ==
  IF trade.id \in pos.applied THEN pos
  ELSE IF trade.side \in {BUY, "BUY"}
  THEN [applied |-> pos.applied \cup {trade.id},
        size |-> pos.size + trade.outputAmount,
        invested |-> pos.invested + trade.inputAmount,
        realized |-> pos.realized]
  ELSE LET cost == IF pos.size > 0
                   THEN (pos.invested * trade.inputAmount) \div pos.size
                   ELSE 0
       IN [applied |-> pos.applied \cup {trade.id},
           size |-> pos.size - trade.inputAmount,
           invested |-> pos.invested - cost,
           realized |-> pos.realized + (trade.outputAmount - cost)]

\* the position of user u after the first n calls of updatePortfolioAfterTrade
RECURSIVE PositionAfter(_, _, _, _)
PositionAfter(u, calls, ts, n) ==
  IF n = 0 THEN EmptyPosition
  ELSE LET before == PositionAfter(u, calls, ts, n - 1)
           trade == ts[calls[n]]
       IN IF trade.userId = u THEN applyTrade(before, trade) ELSE before

Position(u) == PositionAfter(u, portfolio, trades, Len(portfolio))

\* --------------------------------------------------------------- inputs
Amount == 2         \* the amount of every order, and the inAmount of its quotes

\* the trigger price of the conditional orders: strictly inside Prices
TriggerPrice == MaxPrice - 1

Body(type, side, limitPrice, stopPrice, takeProfitPrice, tolerance) ==
  [type |-> type, side |-> side, limitPrice |-> limitPrice, stopPrice |-> stopPrice,
   takeProfitPrice |-> takeProfitPrice, slippageTolerance |-> tolerance]

\* slippageTolerance defaults to 0.01
DefaultTolerance == 1

\* request bodies: one per order type and side in the spelling of the enums,
\* and the spellings the route validators admit
Bodies ==
  {Body(MARKET, side, None, None, None, DefaultTolerance) : side \in OrderSide}
  \cup {Body(LIMIT, side, Some(TriggerPrice), None, None, DefaultTolerance) : side \in OrderSide}
  \cup {Body(STOP_LOSS, side, None, Some(TriggerPrice), None, DefaultTolerance) : side \in OrderSide}
  \cup {Body(TAKE_PROFIT, side, None, None, Some(TriggerPrice), DefaultTolerance) : side \in OrderSide}
  \cup {Body("MARKET", "BUY", None, None, None, DefaultTolerance),
        Body("LIMIT", "SELL", Some(TriggerPrice), None, None, DefaultTolerance)}

Quote(outAmount) == [inAmount |-> Amount, outAmount |-> outAmount]

\* what getQuote returns: no quote, a quote at exactly the trigger price, a
\* quote far above it
Quotes == {None, Some(Quote(Amount * TriggerPrice)), Some(Quote(Amount * (MaxPrice + 1)))}

\* what getTokenPrice returns
PriceResults == {None} \cup {Some(p) : p \in Prices}

RiskReasons == {Some("Risk limit exceeded")}
SwapErrors == {Some("Swap failed")}

\* ------------------------------------------------------------ the system
\* The operations, their inputs drawn from the sets given; a task id outside
\* DOMAIN tasks enables nothing.
NextWith(bodies, quotes) ==
  \/ \E t \in Tasks, u \in {None} \cup {Some(x) : x \in Users}, b \in bodies,
        m \in BOOLEAN : createOrder(t, u, b, m)
  \/ \E u \in Users, b \in bodies : createOrderStoreError(Some(u), b)
  \/ \E o \in OrderIds, u \in Users : cancelOrder(o, u)
  \/ \E o \in OrderIds, u \in Users : cancelOrderStoreError(o, u)
  \/ \E u \in Users : getUserOrdersStoreError(u)
  \/ \E t \in Tasks : processPendingOrders(t)
  \/ \E t \in Tasks : processPendingOrdersStoreError(t)
  \/ \E t \in Tasks, p \in PriceResults : evaluateOrder(t, p)
  \/ \E t \in Tasks : evaluateOrderPriceError(t)
  \/ \E t \in Tasks : riskCheck(t, TRUE, None)
  \/ \E t \in Tasks, r \in RiskReasons : riskCheck(t, FALSE, r)
  \/ \E t \in Tasks : riskCheckError(t)
  \/ \E t \in Tasks, q \in quotes : getQuote(t, q)
  \/ \E t \in Tasks : getQuoteError(t)
  \/ \E t \in Tasks : executeSwap(t, TRUE, None)
  \/ \E t \in Tasks, e \in SwapErrors : executeSwap(t, FALSE, e)
  \/ \E t \in Tasks : executeSwapError(t)
  \/ \E t \in Tasks : createTrade(t)
  \/ \E t \in Tasks : createTradeError(t)
  \/ \E t \in Tasks : updatePortfolioAfterTrade(t)
  \/ \E t \in Tasks : updatePortfolioAfterTradeError(t)
  \/ \E t \in Tasks : writeStatus(t)
  \/ \E t \in Tasks : writeStatusError(t)
  \/ \E t \in Tasks : catchError(t)
  \/ \E t \in Tasks : catchErrorStoreError(t)
  \/ \E t \in Tasks : afterExecute(t)

Next == NextWith(Bodies, Quotes)

Spec == Init /\ [][Next]_vars

\* ------------------------------------------------- the slippage gate alone
\* One call in flight and one order, with the quotes and the tolerances spread
\* around the boundary of the gate: limit orders at TriggerPrice with a
\* tolerance of 0%, 25% and 50%, quotes of Amount units in for 1 up to
\* Amount * MaxPrice + 1 units out, and a market order (which has no expected
\* price).
Tolerances == {0, 25, 50}

SlippageBodies ==
  {Body(LIMIT, side, Some(TriggerPrice), None, None, tol) :
     side \in OrderSide, tol \in Tolerances}
  \cup {Body(MARKET, BUY, None, None, None, DefaultTolerance)}

SlippageQuotes == {None} \cup {Some(Quote(n)) : n \in 1..(Amount * MaxPrice + 1)}

OneTask == {1}

InitSlippage == InitWith(OneTask, MaxOrders, MaxFaults)

NextSlippage == NextWith(SlippageBodies, SlippageQuotes)

SpecSlippage == InitSlippage /\ [][NextSlippage]_vars

\* ------------------------------------------------------------- claims
\* A scheduler alone with a batch of two conditional orders: a SELL
\* take-profit order and a SELL limit order, in either order of creation.
BatchSize == MaxOrders + 1

BatchBodies ==
  {Body(TAKE_PROFIT, SELL, None, None, Some(TriggerPrice), DefaultTolerance),
   Body(LIMIT, SELL, Some(TriggerPrice), None, None, DefaultTolerance)}

InitBatch == InitWith(OneTask, BatchSize, MaxFaults)

NextBatch == NextWith(BatchBodies, Quotes)

SpecBatch == InitBatch /\ [][NextBatch]_vars

Terminal == {FILLED, CANCELLED, REJECTED, FAILED, EXPIRED}

\* no call is in flight
Quiescent == \A t \in DOMAIN tasks : tasks[t].kind = "idle"

TradesOf(o) == {i \in DOMAIN trades : trades[i].orderId = o}

\* C1: a PENDING conditional order raced by cancelOrder and a scheduler attempt
\* ends with exactly one winner: when cancelOrder has returned true the final
\* status is CANCELLED, and FILLED, FAILED or REJECTED only when it has not.
C1_ExactlyOneWinner ==
  \A o \in DOMAIN orders :
    (Quiescent /\ Dispatched(orders[o])) =>
      IF cancelOk[o] > 0 THEN orders[o].status = CANCELLED
      ELSE orders[o].status \in {PENDING, FILLED, FAILED, REJECTED}

\* C2: an order whose stored status is FILLED, CANCELLED, REJECTED or FAILED
\* keeps that status in every step.
C2_TerminalStatusFrozen ==
  [][\A o \in DOMAIN orders :
       orders[o].status \in {FILLED, CANCELLED, REJECTED, FAILED}
         => orders'[o].status = orders[o].status]_vars

\* C3: no step takes an order from a terminal status to a non-terminal one.
C3_NoTerminalToNonTerminal ==
  [][\A o \in DOMAIN orders :
       orders[o].status \in Terminal => orders'[o].status \in Terminal]_vars

\* C3 witness: a terminal status has been written over another terminal status
\* (the order was cancelled, then an attempt in flight wrote its own result).
C3_Witness ==
  \E o \in DOMAIN orders : cancelOk[o] > 0 /\ orders[o].status \in {FILLED, REJECTED, FAILED}

\* C4: at most one trade is ever recorded for an order.
C4_AtMostOneTrade == \A o \in DOMAIN orders : Cardinality(TradesOf(o)) <= 1

\* C5: once cancelOrder has returned true for an order, no further swap is
\* settled and no further trade is recorded for it.
C5_NoExecutionAfterCancel ==
  [][\A o \in DOMAIN orders :
       cancelOk[o] > 0 =>
         /\ swaps'[o] = swaps[o]
         /\ {i \in DOMAIN trades' : trades'[i].orderId = o} = TradesOf(o)]_vars

\* C6: cancelOrder(orderId, userId) sets the status to CANCELLED and returns
\* true exactly when the order exists, is owned by userId and is PENDING;
\* otherwise (and when the store throws) it returns false and no order changes.
C6_CancelOrderContract ==
  [][\A o \in OrderIds, u \in Users :
       /\ cancelOrder(o, u) =>
            IF o \in DOMAIN orders /\ orders[o].userId = u /\ orders[o].status = PENDING
            THEN /\ orders'[o].status = CANCELLED
                 /\ cancelOk'[o] = cancelOk[o] + 1
            ELSE /\ orders' = orders
                 /\ cancelOk' = cancelOk
       /\ cancelOrderStoreError(o, u) => (orders' = orders /\ cancelOk' = cancelOk)]_vars

\* C6 witness: cancelOrder has returned true once for an order, and the order
\* is stored CANCELLED.
C6_Witness ==
  \E o \in DOMAIN orders : cancelOk[o] = 1 /\ orders[o].status = CANCELLED

Range(f) == {f[i] : i \in DOMAIN f}

\* C7: an attempt that returned null settled no swap and recorded no trade, and
\* the order then shows REJECTED or FAILED with the reason; an order whose swap
\* settled does not end FAILED or REJECTED.
C7_NullMeansNoExecution ==
  /\ \A t \in DOMAIN tasks :
       (tasks[t].pc = "returned" /\ tasks[t].ret = "null") =>
         /\ "swap" \notin Range(tasks[t].steps)
         /\ "trade" \notin Range(tasks[t].steps)
  /\ \A o \in DOMAIN orders :
       (Quiescent /\ swaps[o] > 0) => orders[o].status \notin {FAILED, REJECTED}

\* what an attempt may have done besides the risk check and a status write
BeyondRiskGate == {"quote", "noQuote", "slippageExceeded", "swap", "swapFailed", "trade", "portfolio"}
BeyondQuote == {"swap", "swapFailed", "trade", "portfolio"}

\* the attempt of `task` was answered isValid = false by the risk manager
RiskRejected(task) == "riskInvalid" \in Range(task.steps)

\* C8: when validateOrder answers isValid = false, the attempt goes straight to
\* the REJECTED write with the reason given: it requests no quote, submits no
\* swap, records no trade and updates no portfolio; the write leaves the order
\* REJECTED with that reason, and the attempt returns null.  (A store error in
\* that write is the business of the catch block.)
C8_RiskRejection ==
  [][\A t \in DOMAIN tasks :
       /\ \A r \in RiskReasons :
            riskCheck(t, FALSE, r) =>
              /\ tasks'[t].pc = "status"
              /\ tasks'[t].pstatus = REJECTED
              /\ tasks'[t].reason = r
       /\ RiskRejected(tasks'[t]) =>
            /\ Range(tasks'[t].steps) \cap BeyondRiskGate = {}
            /\ tasks'[t].trade = 0
            /\ tasks'[t].pc = "returned" => tasks'[t].ret # "trade"
       /\ (RiskRejected(tasks[t]) /\ writeStatus(t)) =>
            /\ orders'[tasks[t].order].status = REJECTED
            /\ orders'[tasks[t].order].failureReason = tasks[t].reason
            /\ tasks[t].reason \in RiskReasons
            /\ tasks'[t].pc = "returned" /\ tasks'[t].ret = "null"
            /\ trades' = trades /\ swaps' = swaps /\ portfolio' = portfolio]_vars

\* C8 witness: an attempt rejected by the risk manager has returned null and
\* the order is REJECTED with the reason.
C8_Witness ==
  \E t \in DOMAIN tasks :
    /\ tasks[t].pc = "returned" /\ tasks[t].ret = "null"
    /\ tasks[t].steps = <<"riskInvalid", "status">>
    /\ orders[tasks[t].order].status = REJECTED
    /\ orders[tasks[t].order].failureReason \in RiskReasons
    /\ swaps[tasks[t].order] = 0 /\ TradesOf(tasks[t].order) = {}

\* the attempt of `task` got no quote
NoQuote(task) == "noQuote" \in Range(task.steps)

\* C9: when getQuote returns no quote, the attempt goes straight to the FAILED
\* write with a reason: it submits no swap and records no trade; the write
\* leaves the order FAILED with a non-empty reason, and the attempt returns null.
C9_NoQuoteFails ==
  [][\A t \in DOMAIN tasks :
       /\ getQuote(t, None) =>
            /\ tasks'[t].pc = "status"
            /\ tasks'[t].pstatus = FAILED
            /\ IsSome(tasks'[t].reason)
       /\ NoQuote(tasks'[t]) =>
            /\ Range(tasks'[t].steps) \cap BeyondQuote = {}
            /\ tasks'[t].trade = 0
            /\ tasks'[t].pc = "returned" => tasks'[t].ret # "trade"
       /\ (NoQuote(tasks[t]) /\ writeStatus(t)) =>
            /\ orders'[tasks[t].order].status = FAILED
            /\ orders'[tasks[t].order].failureReason = tasks[t].reason
            /\ IsSome(tasks[t].reason)
            /\ tasks'[t].pc = "returned" /\ tasks'[t].ret = "null"
            /\ trades' = trades /\ swaps' = swaps /\ portfolio' = portfolio]_vars

\* C9 witness: a market order that passed the risk gate got no quote; the
\* attempt has returned null and the order is FAILED with a reason.
C9_Witness ==
  \E t \in DOMAIN tasks :
    /\ tasks[t].kind = "request"
    /\ tasks[t].pc = "returned" /\ tasks[t].ret = "null"
    /\ tasks[t].steps = <<"risk", "noQuote", "status">>
    /\ orders[tasks[t].order].type = MARKET
    /\ orders[tasks[t].order].status = FAILED
    /\ IsSome(orders[tasks[t].order].failureReason)
    /\ swaps[tasks[t].order] = 0 /\ TradesOf(tasks[t].order) = {}

\* |outAmount/inAmount - P| compared with T * P, both sides multiplied by
\* 100 * inAmount (T is tolerance / 100)
Deviation(P, quote) == Abs(quote.outAmount - P * quote.inAmount) * 100
Allowed(P, quote, tolerance) == tolerance * P * quote.inAmount

\* the attempt of `task` was stopped by the slippage gate
SlippageRejected(task) == "slippageExceeded" \in Range(task.steps)

\* C10: for an order with reference price P (its limit price, else its market
\* price) and tolerance T, a quote whose implied price deviates from P by more
\* than T * P sends the attempt to the REJECTED write, with no swap and no
\* trade, and the write leaves the order REJECTED; a quote that deviates by
\* less than T * P, or by exactly T * P, goes on to the swap.
C10_SlippageGate ==
  [][\A t \in DOMAIN tasks :
       /\ \A q \in SlippageQuotes \ {None} :
            LET order == orders[tasks[t].order]
                P == Val(expectedPrice(order))
            IN (InAttempt(t, "quote") /\ IsSome(expectedPrice(order)) /\ getQuote(t, q)) =>
                 IF Deviation(P, Val(q)) > Allowed(P, Val(q), order.slippageTolerance)
                 THEN /\ tasks'[t].pc = "status"
                      /\ tasks'[t].pstatus = REJECTED
                      /\ IsSome(tasks'[t].reason)
                 ELSE /\ tasks'[t].pc = "swap"
                      /\ tasks'[t].quote = q
       /\ SlippageRejected(tasks'[t]) =>
            /\ Range(tasks'[t].steps) \cap BeyondQuote = {}
            /\ tasks'[t].trade = 0
            /\ tasks'[t].pc = "returned" => tasks'[t].ret # "trade"
       /\ (SlippageRejected(tasks[t]) /\ writeStatus(t)) =>
            /\ orders'[tasks[t].order].status = REJECTED
            /\ IsSome(orders'[tasks[t].order].failureReason)
            /\ tasks'[t].pc = "returned" /\ tasks'[t].ret = "null"
            /\ trades' = trades /\ swaps' = swaps /\ portfolio' = portfolio]_vars

\* C10 witness: a quote that deviates from the reference price by exactly
\* T * P, with T > 0, has passed the gate and the attempt is about to swap.
C10_Witness ==
  \E t \in DOMAIN tasks :
    LET order == orders[tasks[t].order] IN
    /\ InAttempt(t, "swap")
    /\ IsSome(expectedPrice(order))
    /\ order.slippageTolerance > 0
    /\ Deviation(Val(expectedPrice(order)), Val(tasks[t].quote))
         = Allowed(Val(expectedPrice(order)), Val(tasks[t].quote), order.slippageTolerance)

\* the venue answered the swap of the attempt of `task` with success = false
SwapFailed(task) == "swapFailed" \in Range(task.steps)

\* C11: when executeSwap answers success = false, the attempt goes straight to
\* the FAILED write with the venue's error as reason: it records no trade and
\* does not update the portfolio; the write leaves the order FAILED with that
\* error, and the attempt returns null.
C11_SwapFailure ==
  [][\A t \in DOMAIN tasks :
       /\ \A e \in SwapErrors :
            executeSwap(t, FALSE, e) =>
              /\ tasks'[t].pc = "status"
              /\ tasks'[t].pstatus = FAILED
              /\ tasks'[t].reason = e
              /\ swaps' = swaps
       /\ SwapFailed(tasks'[t]) =>
            /\ Range(tasks'[t].steps) \cap {"swap", "trade", "portfolio"} = {}
            /\ tasks'[t].trade = 0
            /\ tasks'[t].pc = "returned" => tasks'[t].ret # "trade"
       /\ (SwapFailed(tasks[t]) /\ writeStatus(t)) =>
            /\ orders'[tasks[t].order].status = FAILED
            /\ orders'[tasks[t].order].failureReason = tasks[t].reason
            /\ tasks[t].reason \in SwapErrors
            /\ tasks'[t].pc = "returned" /\ tasks'[t].ret = "null"
            /\ trades' = trades /\ swaps' = swaps /\ portfolio' = portfolio]_vars

\* C11 witness: an attempt whose swap the venue refused has returned null and
\* the order is FAILED with the venue's error; nothing was recorded for it.
C11_Witness ==
  \E t \in DOMAIN tasks :
    /\ tasks[t].pc = "returned" /\ tasks[t].ret = "null"
    /\ tasks[t].steps = <<"risk", "quote", "swapFailed", "status">>
    /\ orders[tasks[t].order].status = FAILED
    /\ orders[tasks[t].order].failureReason \in SwapErrors
    /\ TradesOf(tasks[t].order) = {} /\ portfolio = <<>>

\* the steps of a complete attempt, in the order of the code
FullAttempt == <<"risk", "quote", "swap", "trade", "portfolio", "status">>

IsPrefix(s, full) == Len(s) <= Len(full) /\ s = SubSeq(full, 1, Len(s))

\* the steps of `task` that went well, without the answer that ended it
RECURSIVE GoodSteps(_)
GoodSteps(steps) ==
  IF steps = <<>> THEN <<>>
  ELSE IF Head(steps) \in Range(FullAttempt) THEN <<Head(steps)>> \o GoodSteps(Tail(steps))
  ELSE <<>>

\* C12: the steps of every attempt follow risk gate, quote (with the slippage
\* check), swap, trade record, portfolio update, FILLED write, in that order;
\* a trade is inserted only by an attempt whose swap succeeded, the portfolio
\* is handed exactly the trade the attempt inserted, FILLED is written only
\* after the portfolio update, and the attempt that returns a trade returns
\* the one it inserted.
C12_StepOrder ==
  [][\A t \in DOMAIN tasks :
       /\ IsPrefix(GoodSteps(tasks'[t].steps), FullAttempt)
       /\ "status" \in Range(GoodSteps(tasks'[t].steps)) => tasks'[t].pstatus = FILLED
       /\ createTrade(t) =>
            /\ "swap" \in Range(tasks[t].steps)
            /\ swaps[tasks[t].order] > 0
            /\ trades'[tasks'[t].trade].orderId = tasks[t].order
       /\ updatePortfolioAfterTrade(t) =>
            /\ "trade" \in Range(tasks[t].steps)
            /\ tasks[t].trade \in DOMAIN trades
            /\ trades[tasks[t].trade].orderId = tasks[t].order
            /\ portfolio' = Append(portfolio, tasks[t].trade)
       /\ (writeStatus(t) /\ tasks[t].pstatus = FILLED) =>
            /\ "portfolio" \in Range(tasks[t].steps)
            /\ tasks[t].trade \in Range(portfolio)
            /\ tasks'[t].ret = "trade"
       /\ (tasks'[t].pc = "returned" /\ tasks'[t].ret = "trade") =>
            /\ tasks'[t].steps = FullAttempt
            /\ tasks'[t].trade \in DOMAIN trades'
            /\ trades'[tasks'[t].trade].orderId = tasks'[t].order]_vars

\* C12 witness: a complete attempt has returned its trade; the order is FILLED
\* and the trade is in the portfolio.
C12_Witness ==
  \E t \in DOMAIN tasks :
    /\ tasks[t].pc = "returned" /\ tasks[t].ret = "trade"
    /\ tasks[t].steps = FullAttempt
    /\ orders[tasks[t].order].status = FILLED
    /\ tasks[t].trade \in Range(portfolio)

\* C13: an exception raised in steps 1-7 of executeMarketOrder is handled
\* inside it: when the catch block is left, the order is stored FAILED with
\* the exception message and the call returns null; it never throws to its
\* caller, also when the order store is what failed.
C13_ExceptionsCaught ==
  [][\A t \in DOMAIN tasks :
       (InAttempt(t, "catch") /\ tasks'[t].pc # "catch") =>
         /\ tasks'[t].pc = "returned"
         /\ tasks'[t].ret = "null"
         /\ orders'[tasks[t].order].status = FAILED
         /\ orders'[tasks[t].order].failureReason = tasks[t].reason]_vars

\* C14: a MARKET order that passed the request validators is executed by the
\* request that created it: while it is stored PENDING, that request is still
\* inside executeMarketOrder for it.
C14_MarketExecutedSynchronously ==
  \A o \in DOMAIN orders :
    (createOrderValidators(orders[o]) /\ orders[o].type \in {MARKET, "MARKET"}
       /\ orders[o].status = PENDING)
      => \E t \in DOMAIN tasks : tasks[t].kind = "request" /\ tasks[t].order = o

\* the order a pass is about to evaluate
HeadOrder(t) == orders[Head(tasks[t].batch)]

\* the executor called for the head of the batch delegated to executeMarketOrder
Delegated(t) ==
  /\ tasks'[t].kind = "pass" /\ tasks'[t].pc = "risk"
  /\ tasks'[t].order = Head(tasks[t].batch)

\* the executor returned null: the pass is at its next order or over, and
\* nothing is written
ReturnedNull(t) ==
  /\ tasks'[t].pc \in {"loop", "idle"}
  /\ orders' = orders /\ trades' = trades /\ swaps' = swaps /\ portfolio' = portfolio

\* C15: executeLimitOrder delegates to executeMarketOrder exactly when a price
\* is available and, for a BUY, currentPrice <= limitPrice, for a SELL,
\* currentPrice >= limitPrice (equality included); otherwise the order is left
\* as it is and nothing else changes.
C15_LimitTrigger ==
  [][\A t \in DOMAIN tasks : \A p \in PriceResults :
       (InAttempt(t, "loop") /\ HeadOrder(t).type = LIMIT /\ evaluateOrder(t, p)) =>
         IF /\ IsSome(p)
            /\ HeadOrder(t).side = BUY => Val(p) <= Val(HeadOrder(t).limitPrice)
            /\ HeadOrder(t).side = SELL => Val(p) >= Val(HeadOrder(t).limitPrice)
         THEN Delegated(t) /\ orders' = orders
         ELSE ReturnedNull(t)]_vars

\* C15 witness: a pass has delegated a BUY limit order to executeMarketOrder.
C15_Witness ==
  \E t \in DOMAIN tasks :
    /\ tasks[t].kind = "pass" /\ tasks[t].pc = "risk"
    /\ orders[tasks[t].order].type = LIMIT /\ orders[tasks[t].order].side = BUY

\* a LIMIT SELL order, in the spelling of the enums or of the validators
IsLimitSell(order) ==
  /\ order.type \in {LIMIT, "LIMIT"}
  /\ order.side \in {SELL, "SELL"}
  /\ IsSome(order.limitPrice)

\* C16: a PENDING LIMIT SELL order created through createOrder is left PENDING
\* by a tick at which the price is below its limit price, and a tick at which
\* the price is at or above the limit price starts an execution attempt for it.
C16_LimitSellScenario ==
  [][\A t \in DOMAIN tasks : \A p \in Prices :
       (InAttempt(t, "loop") /\ IsLimitSell(HeadOrder(t))
          /\ HeadOrder(t).status = PENDING /\ evaluateOrder(t, Some(p))) =>
         IF p < Val(HeadOrder(t).limitPrice)
         THEN orders' = orders /\ ~Delegated(t)
         ELSE Delegated(t)]_vars

\* C17: executeStopLossOrder delegates to executeMarketOrder exactly when a
\* price is available, the side is SELL and currentPrice <= stopPrice; a BUY
\* stop-loss order never triggers; otherwise nothing changes.
C17_StopLossTrigger ==
  [][\A t \in DOMAIN tasks : \A p \in PriceResults :
       (InAttempt(t, "loop") /\ HeadOrder(t).type = STOP_LOSS /\ evaluateOrder(t, p)) =>
         IF /\ IsSome(p)
            /\ HeadOrder(t).side = SELL
            /\ Val(p) <= Val(HeadOrder(t).stopPrice)
         THEN Delegated(t) /\ orders' = orders
         ELSE ReturnedNull(t)]_vars

\* C17 witness: a pass has delegated a SELL stop-loss order.
C17_Witness ==
  \E t \in DOMAIN tasks :
    /\ tasks[t].kind = "pass" /\ tasks[t].pc = "risk"
    /\ orders[tasks[t].order].type = STOP_LOSS /\ orders[tasks[t].order].side = SELL

\* C18: executeTakeProfitOrder delegates to executeMarketOrder exactly when a
\* price is available, the side is SELL and currentPrice >= takeProfitPrice;
\* otherwise it returns null and nothing changes.
C18_TakeProfitTrigger ==
  [][\A t \in DOMAIN tasks : \A p \in PriceResults :
       (InAttempt(t, "loop") /\ HeadOrder(t).type = TAKE_PROFIT /\ evaluateOrder(t, p)) =>
         IF /\ IsSome(p)
            /\ HeadOrder(t).side = SELL
            /\ Val(p) >= Val(HeadOrder(t).takeProfitPrice)
         THEN Delegated(t) /\ orders' = orders
         ELSE ReturnedNull(t)]_vars

\* C18 witness: a pass has delegated a SELL take-profit order.
C18_Witness ==
  \E t \in DOMAIN tasks :
    /\ tasks[t].kind = "pass" /\ tasks[t].pc = "risk"
    /\ orders[tasks[t].order].type = TAKE_PROFIT /\ orders[tasks[t].order].side = SELL

\* C19: updatePortfolioAfterTrade is called with trades createTrade recorded,
\* and with each of them at most once; and a trade that has been applied,
\* applied again, leaves the position (size, invested capital, realized P&L)
\* as it is.
C19_TradeAppliedOnce ==
  /\ \A i \in DOMAIN portfolio : portfolio[i] \in DOMAIN trades
  /\ \A i, j \in DOMAIN portfolio : portfolio[i] = portfolio[j] => i = j
  /\ \A i \in DOMAIN portfolio :
       LET trade == trades[portfolio[i]] IN
       /\ trade.id \in Position(trade.userId).applied
       /\ applyTrade(Position(trade.userId), trade) = Position(trade.userId)

\* C19 witness: two trades have been applied to the portfolio of a user, and
\* the position is not the empty one.
C19_Witness ==
  /\ Len(portfolio) = 2
  /\ \E u \in Users : Cardinality(Position(u).applied) = 2 /\ Position(u).size # 0

\* C20: an exception raised while a pass evaluates one order does not end the
\* pass: as long as orders of the batch are left, the pass goes on; and what
\* the pass writes for one order leaves the other orders as they are.
C20_FailureIsolated ==
  [][\A t \in DOMAIN tasks :
       /\ (tasks[t].kind = "pass" /\ Len(tasks[t].batch) > 1) => tasks'[t].kind = "pass"
       /\ (tasks[t].kind = "pass" /\ (writeStatus(t) \/ catchError(t))) =>
            \A o \in DOMAIN orders : o # tasks[t].order => orders'[o] = orders[o]]_vars

\* C21: when a scheduler-driven attempt for a conditional order gets no quote,
\* or its swap fails, the status write that follows leaves the order PENDING,
\* to be evaluated again at the next tick.
C21_ConditionalOrderRetried ==
  [][\A t \in DOMAIN tasks :
       (/\ tasks[t].kind = "pass"
        /\ NoQuote(tasks[t]) \/ SwapFailed(tasks[t])
        /\ orders[tasks[t].order].status = PENDING
        /\ writeStatus(t))
         => orders'[tasks[t].order].status = PENDING]_vars

\* C22: when getTokenPrice returns no price, the executor of a LIMIT, STOP_LOSS
\* or TAKE_PROFIT order returns at once: no attempt is started (no risk check,
\* quote, swap or trade), nothing is written, and the pass is at its next order.
C22_NoPriceNoOp ==
  [][\A t \in DOMAIN tasks :
       (InAttempt(t, "loop") /\ Dispatched(HeadOrder(t)) /\ evaluateOrder(t, None)) =>
         /\ ReturnedNull(t)
         /\ tasks'[t] = NextOrder(tasks[t])
         /\ tasks'[t].steps = <<>> /\ tasks'[t].order = 0
         /\ cancelOk' = cancelOk /\ faults' = faults]_vars

\* C22 witness: a pass is about to call the executor of a PENDING conditional
\* order, whose price lookup may come back empty.
C22_Witness ==
  \E t \in DOMAIN tasks :
    /\ InAttempt(t, "loop")
    /\ Dispatched(HeadOrder(t))
    /\ HeadOrder(t).status = PENDING
    /\ None \in PriceResults

\* C23: when the store fails under cancelOrder or getUserOrders, the call ends
\* with an error for its caller, not with the ordinary result false or [].
C23_StoreErrorsPropagate ==
  [][/\ \A o \in OrderIds, u \in Users : cancelOrderStoreError(o, u) => cancelOrderCatch.threw
     /\ \A u \in Users : getUserOrdersStoreError(u) => getUserOrdersCatch.threw]_vars

C25_PassNeverThrows ==
  [][\A t \in DOMAIN tasks :
       /\ processPendingOrdersStoreError(t) =>
            /\ tasks'[t] = IdleTask
            /\ orders' = orders /\ trades' = trades /\ portfolio' = portfolio
       /\ (tasks[t].kind = "pass" /\ tasks'[t].kind # "pass") => tasks'[t] = IdleTask
       /\ tasks'[t].kind \in {"idle", "pass", "request"}]_vars

\* C25 witness: after exceptions have been raised, a pass is running again
\* over an order that is still PENDING.
C25_Witness ==
  \E t \in DOMAIN tasks :
    /\ tasks[t].kind = "pass" /\ tasks[t].pc = "loop"
    /\ faults = limits.faults
    /\ HeadOrder(t).status = PENDING
    /\ trades = <<>>

\* C26: an attempt that has passed the slippage check did so against a
\* reference price: the order has a limit price or a recorded market price.
C26_ReferencePriceDefined ==
  \A t \in DOMAIN tasks :
    (tasks[t].kind \in {"pass", "request"} /\ "quote" \in Range(tasks[t].steps)
       /\ ~SlippageRejected(tasks[t]))
      => IsSome(expectedPrice(orders[tasks[t].order]))

\* C27: a pass fetches exactly the orders that are PENDING at that moment,
\* oldest first and each once; it goes through them in that order, one after
\* the other, and every attempt it starts is for the order at the head of
\* what is left of the batch.  An order that is terminal at fetch time is not
\* in the batch.
C27_OldestFirstOncePerPass ==
  [][\A t \in DOMAIN tasks :
       /\ processPendingOrders(t) =>
            LET b == tasks'[t].batch IN
            /\ \A i \in DOMAIN b : b[i] \in DOMAIN orders /\ orders[b[i]].status = PENDING
            /\ \A o \in DOMAIN orders : orders[o].status = PENDING => o \in Range(b)
            /\ \A i, j \in DOMAIN b : i < j => b[i] < b[j]
       /\ (tasks[t].kind = "pass" /\ tasks'[t].kind = "pass") =>
            tasks'[t].batch \in {tasks[t].batch, Tail(tasks[t].batch)}
       /\ (tasks'[t].kind = "pass" /\ tasks'[t].pc # "loop") =>
            tasks'[t].order = Head(tasks'[t].batch)]_vars

\* C27 witness: of two orders the older one is terminal, and a pass is about
\* to evaluate the younger one, the only one in its batch.
C27_Witness ==
  \E t \in DOMAIN tasks :
    /\ Len(orders) = 2
    /\ orders[1].status \in Terminal
    /\ tasks[t].kind = "pass" /\ tasks[t].pc = "loop"
    /\ tasks[t].batch = <<2>>

\* the attributes of an order that no operation of the service may change
FrozenAttributes ==
  {"userId", "type", "side", "limitPrice", "stopPrice", "takeProfitPrice",
   "marketPrice", "slippageTolerance"}

\* C28: no step changes an attribute of a stored order other than its status
\* and failure reason, no order is ever deleted, and a recorded trade is
\* never changed or deleted.
C28_OnlyStatusAndReasonChange ==
  [][/\ Len(orders') >= Len(orders)
     /\ \A o \in DOMAIN orders : \A a \in FrozenAttributes : orders'[o][a] = orders[o][a]
     /\ Len(trades') >= Len(trades)
     /\ \A i \in DOMAIN trades : trades'[i] = trades[i]]_vars

\* C28 witness: a limit order has been cancelled and executed all the same;
\* its trade and its limit price are still there.
C28_Witness ==
  \E o \in DOMAIN orders :
    /\ cancelOk[o] > 0
    /\ orders[o].status = FILLED
    /\ IsSome(orders[o].limitPrice)
    /\ TradesOf(o) # {}

\* C29: an order of a type the request validators accept, other than a market
\* order, has a case in the switch of processPendingOrders, and its type and
\* side are values of the OrderType and OrderSide enums.
C29_ValidatedTypesDispatched ==
  \A o \in DOMAIN orders :
    (createOrderValidators(orders[o]) /\ orders[o].type \notin {MARKET, "MARKET"}) =>
      /\ Dispatched(orders[o])
      /\ orders[o].type \in OrderType
      /\ orders[o].side \in OrderSide

\* C30: when createOrder answers 201 for a market order, the status of the
\* order in the response is the status stored for the order.
C30_ResponseShowsStoredStatus ==
  \A t \in DOMAIN tasks :
    (/\ tasks[t].kind = "request" /\ tasks[t].pc = "returned"
     /\ createOrderResponse(tasks[t]).code = 201)
      => createOrderResponse(tasks[t]).status = Some(orders[tasks[t].order].status)
====
